---- MODULE Spec2Model ----
(***************************************************************************)
(* Model of frontend/server.js: the health/lifecycle flags, the chaos      *)
(* admin endpoints (crash, toggle-health, start/stop-overload, status),    *)
(* the timers they create on the Node event loop, and the /api proxy       *)
(* error path.                                                             *)
(*                                                                         *)
(* Time is counted in units of 100 ms (TicksPerSecond units per second).   *)
(* One action is one callback of the single-threaded event loop, run to    *)
(* completion.  A timer stores the time remaining until it is due; a       *)
(* value <= 0 means the timer is overdue because the loop was blocked.     *)
(***************************************************************************)
EXTENDS Integers, FiniteSets, Sequences, TLC

VARIABLES
    serverHealthy,     \* let serverHealthy = true
    serverOverloaded,  \* let serverOverloaded = false
    overloadInterval,  \* let overloadInterval = null (Null, or a timer id)
    timers,            \* the event loop's live timers (setInterval/setTimeout)
    processExited,     \* the process has terminated
    exitBy,            \* which mechanism terminated it
    sinceCrash,        \* time since the first accepted crash call (-1: none)
    crashCalls,        \* number of /admin/crash calls accepted
    toggleCount,       \* number of /admin/toggle-health calls applied
    lastOverloadCall,  \* the last of start-overload / stop-overload called
    lastOp,            \* the request handler that ran last
    response,          \* the HTTP response that handler wrote
    backendEnv,        \* process.env.BACKEND_API_URL (Unset, or a URL)
    requests,          \* the /api requests received, in order of arrival
    loop               \* the event loop: phase, requests waiting to be served

vars == <<serverHealthy, serverOverloaded, overloadInterval, timers,
          processExited, exitBy, sinceCrash, crashCalls, toggleCount,
          lastOverloadCall, lastOp, response, backendEnv, requests, loop>>

\* everything but the event loop's own bookkeeping
program == <<serverHealthy, serverOverloaded, overloadInterval, timers,
             processExited, exitBy, sinceCrash, crashCalls, toggleCount,
             lastOverloadCall, lastOp, response, backendEnv, requests>>

proxy == <<backendEnv, requests>>

chaos == <<timers, processExited, exitBy, sinceCrash, crashCalls>>

lifecycle == <<serverHealthy, serverOverloaded, overloadInterval>>

(***************************************************************************)
(* Bounds of the model.                                                    *)
(***************************************************************************)
MaxToggles == 2
MaxCrashes == 1
MaxRequests == 1
MaxInbox == 1

(***************************************************************************)
(* Program constants, in units of 100 ms where they are durations.         *)
(***************************************************************************)
TicksPerSecond == 10
StressPeriod == 1
BurnTime == 5
ReleaseDelay == 2
CrashPeriod == 10
CrashCountdown == 3
ExitDelay == 1
ThrowDelay == 2
KillDelay == 3

Null == 0
Unset == "undefined"
Timestamp == "ts"
NoResponse == [code |-> 0, body |-> [none |-> TRUE]]

(***************************************************************************)
(* The timer table: setInterval, setTimeout, clearInterval.                *)
(***************************************************************************)
FreshId(ts) ==
    CHOOSE i \in 1..(Cardinality(ts) + 1) :
        /\ \A t \in ts : t.id # i
        /\ \A j \in 1..(i - 1) : \E t \in ts : t.id = j

setInterval(ts, id, kind, ms, n) ==
    ts \cup {[id |-> id, kind |-> kind, due |-> ms, repeat |-> ms, countdown |-> n]}

\* a timeout's handle is never kept: timeouts carry no identity
setTimeout(ts, kind, ms) ==
    ts \cup {[id |-> Null, kind |-> kind, due |-> ms, repeat |-> 0, countdown |-> 0]}

\* mutant: the timer is not cancelled
clearInterval_Forgotten(ts, id) == ts

\* mutant: every interval timer is cancelled, not only the one named
clearInterval_All(ts, id) == {t \in ts : t.repeat = 0}

clearInterval(ts, id) == {t \in ts : t.id # id}

\* the time `d` passes while the loop runs a callback or waits
Elapse(ts, d) == {[t EXCEPT !.due = @ - d] : t \in ts}

\* an interval timer is re-armed from the moment its callback starts
Rearm(ts, t) == (ts \ {t}) \cup {[t EXCEPT !.due = t.repeat]}

\* the loop runs the due timer with the earliest expiry
IsNextTimer(t) ==
    /\ t \in timers
    /\ t.due <= 0
    /\ \A u \in timers : t.due <= u.due

ElapsedCap == (4 * TicksPerSecond) + 1

Clock(s, d) ==
    IF s < 0 THEN s
    ELSE IF s + d > ElapsedCap THEN ElapsedCap ELSE s + d

StressTimers == {t \in timers : t.kind = "stress"}
CrashTimers == {t \in timers : t.kind = "crash"}

(***************************************************************************)
(* The event loop.  One iteration runs the timers that were due when the   *)
(* timers phase began, in order of expiry, and then serves the requests    *)
(* that were waiting when the poll phase began; with nothing to do it      *)
(* waits in the poll phase.  In phase "off" the phases are not tracked:    *)
(* a request is served as it arrives, between any two callbacks.           *)
(***************************************************************************)
LoopOff == [phase |-> "off", elapsed |-> 0, batch |-> 0, inbox |-> <<>>]
LoopIdle == [phase |-> "poll", elapsed |-> 0, batch |-> 0, inbox |-> <<>>]

\* mutant: the timers phase runs whatever is due by now, timers that came
\* due while it was running included
DueNow(t) == t.due <= 0

\* the timer had expired when this timers phase began
DueAtPhaseStart(t) == t.due + loop.elapsed <= 0

\* a request handler runs when the poll phase dispatches its request
Served(op) ==
    IF loop.phase = "off" THEN UNCHANGED loop
    ELSE /\ loop.phase = "poll"
         /\ loop.batch > 0
         /\ Head(loop.inbox).op = op
         /\ loop' = [loop EXCEPT !.inbox = Tail(@), !.batch = @ - 1]

\* the time d passes for the requests that wait in the inbox
Waited(inbox, d) ==
    [k \in 1..Len(inbox) |->
        [inbox[k] EXCEPT !.waited =
            IF @ + d > ElapsedCap THEN ElapsedCap ELSE @ + d]]

\* a timer callback runs in the timers phase and takes the time d
Fired(t, d) ==
    IF loop.phase = "off" THEN UNCHANGED loop
    ELSE /\ loop.phase = "timers"
         /\ DueAtPhaseStart(t)
         /\ loop' = [loop EXCEPT
                !.elapsed = IF @ + d > ElapsedCap THEN ElapsedCap ELSE @ + d,
                !.inbox = Waited(@, d)]

\* the loop waits only with no request to serve
Idling ==
    /\ loop.phase # "off" => /\ loop.phase = "poll"
                             /\ loop.batch = 0
                             /\ loop.inbox = <<>>
    /\ UNCHANGED loop

\* a request that arrived waits in the inbox for the poll phase
Queued(op) ==
    IF loop.phase = "off" THEN UNCHANGED loop
    ELSE /\ Len(loop.inbox) < MaxInbox
         /\ loop' = [loop EXCEPT !.inbox =
                Append(@, [op |-> op, waited |-> 0])]

(***************************************************************************)
(* Initial state: lines 70-73, no request served, no timer armed.          *)
(***************************************************************************)
Started(env) ==
    /\ backendEnv = env
    /\ requests = <<>>
    /\ serverHealthy = TRUE
    /\ serverOverloaded = FALSE
    /\ overloadInterval = Null
    /\ timers = {}
    /\ processExited = FALSE
    /\ exitBy = "none"
    /\ sinceCrash = -1
    /\ crashCalls = 0
    /\ toggleCount = 0
    /\ lastOverloadCall = "none"
    /\ lastOp = "none"
    /\ response = NoResponse

InitWith(env) == Started(env) /\ loop = LoopOff

Init == InitWith(Unset)

(***************************************************************************)
(* GET /health                                                             *)
(***************************************************************************)
\* mutant: an overloaded server is reported like an unhealthy one
HealthResponse_Conflated(healthy, overloaded) ==
    IF ~healthy \/ overloaded
    THEN [code |-> 503,
          body |-> [status |-> "unhealthy", timestamp |-> Timestamp,
                    service |-> "frontend"]]
    ELSE [code |-> 200,
          body |-> [status |-> "healthy", timestamp |-> Timestamp,
                    service |-> "frontend", overloaded |-> overloaded]]

HealthResponse(healthy, overloaded) ==
    IF ~healthy
    THEN [code |-> 503,
          body |-> [status |-> "unhealthy", timestamp |-> Timestamp,
                    service |-> "frontend"]]
    ELSE [code |-> 200,
          body |-> [status |-> IF overloaded THEN "degraded" ELSE "healthy",
                    timestamp |-> Timestamp, service |-> "frontend",
                    overloaded |-> overloaded]]

Health ==
    /\ ~processExited
    /\ response' = HealthResponse(serverHealthy, serverOverloaded)
    /\ lastOp' = "health"
    /\ UNCHANGED proxy
    /\ Served("health")
    /\ UNCHANGED <<lifecycle, timers, processExited, exitBy, sinceCrash,
                   crashCalls, toggleCount, lastOverloadCall>>

(***************************************************************************)
(* POST /admin/toggle-health                                               *)
(***************************************************************************)
\* mutant: the endpoint disables health instead of flipping it
ToggledHealth_Disable(healthy) == FALSE

\* mutant: the endpoint only ever marks the server healthy
ToggledHealth_Enable(healthy) == TRUE

ToggledHealth(healthy) == ~healthy

ToggleHealth ==
    /\ ~processExited
    /\ toggleCount < MaxToggles
    /\ serverHealthy' = ToggledHealth(serverHealthy)
    /\ toggleCount' = toggleCount + 1
    /\ response' =
         [code |-> 200,
          body |-> [message |-> IF serverHealthy' THEN "Frontend health enabled"
                                ELSE "Frontend health disabled",
                    healthy |-> serverHealthy', timestamp |-> Timestamp]]
    /\ lastOp' = "toggle-health"
    /\ UNCHANGED proxy
    /\ Served("toggle-health")
    /\ UNCHANGED <<serverOverloaded, overloadInterval, timers, processExited,
                   exitBy, sinceCrash, crashCalls, lastOverloadCall>>

(***************************************************************************)
(* POST /admin/start-overload                                              *)
(***************************************************************************)
\* mutant: the guard against a second interval is missing
AlreadyRunning_Unchecked(handle) == FALSE

AlreadyRunning(handle) == handle # Null

StartOverload ==
    /\ ~processExited
    /\ lastOp' = "start-overload"
    /\ lastOverloadCall' = "start"
    /\ IF AlreadyRunning(overloadInterval)
       THEN /\ response' = [code |-> 200,
                            body |-> [message |-> "Overload already running",
                                      overloaded |-> TRUE]]
            /\ UNCHANGED <<serverOverloaded, overloadInterval, timers>>
       ELSE /\ serverOverloaded' = TRUE
            /\ overloadInterval' = FreshId(timers)
            /\ timers' = setInterval(timers, FreshId(timers), "stress",
                                     StressPeriod, 0)
            /\ response' =
                 [code |-> 200,
                  body |-> [message |-> "Frontend server overload started - High CPU/Memory usage",
                            overloaded |-> TRUE, timestamp |-> Timestamp]]
    /\ UNCHANGED proxy
    /\ Served("start-overload")
    /\ UNCHANGED <<serverHealthy, processExited, exitBy, sinceCrash,
                   crashCalls, toggleCount>>

(***************************************************************************)
(* POST /admin/stop-overload                                               *)
(***************************************************************************)
StopNoOpResponse_Conflict ==
    [code |-> 409, body |-> [message |-> "No overload running",
                             overloaded |-> FALSE]]

\* res.json({ message: 'No overload running', overloaded: false })
StopNoOpResponse ==
    [code |-> 200, body |-> [message |-> "No overload running",
                             overloaded |-> FALSE]]

\* mutant: the flag is left set when the interval is cleared
StopOverload_KeepsFlag ==
    /\ ~processExited
    /\ lastOp' = "stop-overload"
    /\ lastOverloadCall' = "stop"
    /\ IF overloadInterval # Null
       THEN /\ timers' = clearInterval(timers, overloadInterval)
            /\ overloadInterval' = Null
            /\ response' =
                 [code |-> 200,
                  body |-> [message |-> "Frontend server overload stopped",
                            overloaded |-> FALSE, timestamp |-> Timestamp]]
            /\ UNCHANGED serverOverloaded
       ELSE /\ response' = StopNoOpResponse
            /\ UNCHANGED <<serverOverloaded, overloadInterval, timers>>
    /\ UNCHANGED proxy
    /\ Served("stop-overload")
    /\ UNCHANGED <<serverHealthy, processExited, exitBy, sinceCrash,
                   crashCalls, toggleCount>>

StopOverload ==
    /\ ~processExited
    /\ lastOp' = "stop-overload"
    /\ lastOverloadCall' = "stop"
    /\ IF overloadInterval # Null
       THEN /\ timers' = clearInterval(timers, overloadInterval)
            /\ overloadInterval' = Null
            /\ serverOverloaded' = FALSE
            /\ response' =
                 [code |-> 200,
                  body |-> [message |-> "Frontend server overload stopped",
                            overloaded |-> FALSE, timestamp |-> Timestamp]]
       ELSE /\ response' = StopNoOpResponse
            /\ UNCHANGED <<serverOverloaded, overloadInterval, timers>>
    /\ UNCHANGED proxy
    /\ Served("stop-overload")
    /\ UNCHANGED <<serverHealthy, processExited, exitBy, sinceCrash,
                   crashCalls, toggleCount>>

(***************************************************************************)
(* GET /admin/status                                                       *)
(***************************************************************************)
Status ==
    /\ ~processExited
    /\ response' =
         [code |-> 200,
          body |-> [healthy |-> serverHealthy, overloaded |-> serverOverloaded,
                    timestamp |-> Timestamp, uptime |-> "uptime",
                    memory |-> "memoryUsage", cpu |-> "cpuUsage"]]
    /\ lastOp' = "status"
    /\ UNCHANGED proxy
    /\ Served("status")
    /\ UNCHANGED <<lifecycle, timers, processExited, exitBy, sinceCrash,
                   crashCalls, toggleCount, lastOverloadCall>>

(***************************************************************************)
(* The overload interval callback: 500 ms of blocking CPU work, then the   *)
(* allocation, whose release is scheduled 200 ms later.                    *)
(***************************************************************************)
StressTick(t) ==
    /\ ~processExited
    /\ IsNextTimer(t)
    /\ t.kind = "stress"
    /\ timers' = setTimeout(Elapse(Rearm(timers, t), BurnTime), "release",
                            ReleaseDelay)
    /\ sinceCrash' = Clock(sinceCrash, BurnTime)
    /\ UNCHANGED proxy
    /\ Fired(t, BurnTime)
    /\ UNCHANGED <<lifecycle, processExited, exitBy, crashCalls, toggleCount,
                   lastOverloadCall, lastOp, response>>

\* setTimeout(() => wasteMemory.length = 0, 200)
ReleaseWaste(t) ==
    /\ ~processExited
    /\ IsNextTimer(t)
    /\ t.kind = "release"
    /\ timers' = timers \ {t}
    /\ UNCHANGED proxy
    /\ Fired(t, 0)
    /\ UNCHANGED <<lifecycle, processExited, exitBy, sinceCrash, crashCalls,
                   toggleCount, lastOverloadCall, lastOp, response>>

(***************************************************************************)
(* POST /admin/crash and its countdown                                     *)
(***************************************************************************)
\* mutant: the handler marks the server unhealthy before it dies
Crash_MarksUnhealthy ==
    /\ ~processExited
    /\ response' = [code |-> 200,
                    body |-> [message |-> "Frontend container crash initiated",
                              countdown |-> CrashCountdown,
                              timestamp |-> Timestamp]]
    /\ timers' = setInterval(timers, FreshId(timers), "crash", CrashPeriod,
                             CrashCountdown)
    /\ crashCalls' = crashCalls + 1
    /\ sinceCrash' = IF sinceCrash < 0 THEN 0 ELSE sinceCrash
    /\ lastOp' = "crash"
    /\ serverHealthy' = FALSE
    /\ UNCHANGED proxy
    /\ Served("crash")
    /\ UNCHANGED <<serverOverloaded, overloadInterval, processExited, exitBy,
                   toggleCount, lastOverloadCall>>

\* mutant: a crash request restarts the countdown that is already running
Crash_Restart ==
    /\ ~processExited
    /\ response' = [code |-> 200,
                    body |-> [message |-> "Frontend container crash initiated",
                              countdown |-> CrashCountdown,
                              timestamp |-> Timestamp]]
    /\ timers' = setInterval(timers \ CrashTimers, FreshId(timers), "crash",
                             CrashPeriod, CrashCountdown)
    /\ crashCalls' = crashCalls + 1
    /\ sinceCrash' = IF sinceCrash < 0 THEN 0 ELSE sinceCrash
    /\ lastOp' = "crash"
    /\ UNCHANGED proxy
    /\ Served("crash")
    /\ UNCHANGED <<lifecycle, processExited, exitBy, toggleCount,
                   lastOverloadCall>>

Crash ==
    /\ ~processExited
    /\ response' = [code |-> 200,
                    body |-> [message |-> "Frontend container crash initiated",
                              countdown |-> CrashCountdown,
                              timestamp |-> Timestamp]]
    /\ timers' = setInterval(timers, FreshId(timers), "crash", CrashPeriod,
                             CrashCountdown)
    /\ crashCalls' = crashCalls + 1
    /\ sinceCrash' = IF sinceCrash < 0 THEN 0 ELSE sinceCrash
    /\ lastOp' = "crash"
    /\ UNCHANGED proxy
    /\ Served("crash")
    /\ UNCHANGED <<lifecycle, processExited, exitBy, toggleCount,
                   lastOverloadCall>>

\* mutant: the kill signal is armed first and process.exit last
TerminationLadder_Reversed(ts) ==
    setTimeout(setTimeout(setTimeout(ts, "kill", ExitDelay),
                          "throw", ThrowDelay),
               "exit", KillDelay)

TerminationLadder(ts) ==
    setTimeout(setTimeout(setTimeout(ts, "exit", ExitDelay),
                          "throw", ThrowDelay),
               "kill", KillDelay)

CrashTick(t) ==
    /\ ~processExited
    /\ IsNextTimer(t)
    /\ t.kind = "crash"
    /\ LET n == t.countdown - 1 IN
         IF n <= 0
         THEN timers' = TerminationLadder(clearInterval(timers, t.id))
         ELSE timers' = Rearm(timers \ {t}, [t EXCEPT !.countdown = n])
    /\ UNCHANGED proxy
    /\ Fired(t, 0)
    /\ UNCHANGED <<lifecycle, processExited, exitBy, sinceCrash, crashCalls,
                   toggleCount, lastOverloadCall, lastOp, response>>

\* the premise of the ladder ("multiple crash methods to ensure it works"):
\* the process.exit(1) callback runs and the process is still alive
ExitIntercepted(t) ==
    /\ ~processExited
    /\ IsNextTimer(t)
    /\ t.kind = "exit"
    /\ timers' = timers \ {t}
    /\ UNCHANGED proxy
    /\ Fired(t, 0)
    /\ UNCHANGED <<lifecycle, processExited, exitBy, sinceCrash, crashCalls,
                   toggleCount, lastOverloadCall, lastOp, response>>

\* process.exit(1); an uncaught Error; process.kill(process.pid, 'SIGKILL')
Terminate(t) ==
    /\ ~processExited
    /\ IsNextTimer(t)
    /\ t.kind \in {"exit", "throw", "kill"}
    /\ processExited' = TRUE
    /\ exitBy' = t.kind
    /\ timers' = timers \ {t}
    /\ UNCHANGED proxy
    /\ Fired(t, 0)
    /\ UNCHANGED <<lifecycle, sinceCrash, crashCalls, toggleCount,
                   lastOverloadCall, lastOp, response>>

(***************************************************************************)
(* The loop idles (polls) while no timer is due.                           *)
(***************************************************************************)
Wait ==
    /\ ~processExited
    /\ timers # {}
    /\ \A t \in timers : t.due > 0
    /\ timers' = Elapse(timers, 1)
    /\ sinceCrash' = Clock(sinceCrash, 1)
    /\ UNCHANGED proxy
    /\ Idling
    /\ UNCHANGED <<lifecycle, processExited, exitBy, crashCalls, toggleCount,
                   lastOverloadCall, lastOp, response>>

(***************************************************************************)
(* The /api proxy: app.use('/api', createProxyMiddleware({...})).           *)
(* A URL is a sequence of tokens: path segments, then an optional query.   *)
(***************************************************************************)
DefaultBackend == "http://localhost:8080"

\* const BACKEND_URL = process.env.BACKEND_API_URL || 'http://localhost:8080'
BACKEND_URL == IF backendEnv = Unset THEN DefaultBackend ELSE backendEnv

Mount == <<"/api">>
Rests == {<<"/movies">>, <<"/reviews", "/1">>}
Queries == {<<>>, <<"?page=2">>}
Clients == {"10.0.0.7", "10.0.0.9"}
BackendEnvs == {Unset, "http://backend:8080"}

\* proxyRes.headers is an object: <<name, value>> pairs in insertion order.
\* Node stores the names of an incoming message in lower case.
BackendReplies ==
    {[status |-> 200,
      headers |-> << <<"content-type", "application/json">> >>,
      body |-> [echo |-> "GET"]],
     [status |-> 404,
      headers |-> << <<"x-frame-options", "SAMEORIGIN">>,
                     <<"content-type", "application/json">> >>,
      body |-> [detail |-> "not found"]]}

NoHeaders == ("none" :> "none")
NoBody == [none |-> TRUE]

IsPathToken(tok) == \A q \in Queries : \A k \in 1..Len(q) : q[k] # tok

\* the URL without its query string
Pathname(url) == SelectSeq(url, IsPathToken)

\* express strips the mount path from req.url while the middleware runs
StripMount(url) == SubSeq(url, Len(Mount) + 1, Len(url))

\* the proxy middleware puts the original URL back before it forwards
RestoreUrl(req) == [req EXCEPT !.url = req.originalUrl]

\* mutant: req.url, query string included, is reported as the path
ReqPath_Url(req) == req.url

\* express: req.path is the pathname of req.url
ReqPath(req) == Pathname(req.url)

\* onProxyReq: the headers set on the outgoing request
OnProxyReq(req) ==
    ("X-Forwarded-Proto" :> "http") @@ ("X-Real-IP" :> req.ip)

\* obj[name] = value: an existing key keeps its place, a new key goes last
SetKey(obj, name, value) ==
    IF \E k \in 1..Len(obj) : obj[k][1] = name
    THEN [k \in 1..Len(obj) |->
             IF obj[k][1] = name THEN <<name, value>> ELSE obj[k]]
    ELSE Append(obj, <<name, value>>)

\* mutant: the frame-embedding header is left as the backend sent it
OnProxyRes_NoFrame(headers) ==
    SetKey(SetKey(headers, "X-Content-Type-Options", "nosniff"),
           "X-XSS-Protection", "1; mode=block")

\* onProxyRes: the three hardening headers assigned on proxyRes.headers
OnProxyRes(headers) ==
    SetKey(SetKey(SetKey(headers, "X-Content-Type-Options", "nosniff"),
                  "X-Frame-Options", "DENY"),
           "X-XSS-Protection", "1; mode=block")

\* header names are case-insensitive on the wire
LowerCase(name) ==
    CASE name = "X-Content-Type-Options" -> "x-content-type-options"
      [] name = "X-Frame-Options" -> "x-frame-options"
      [] name = "X-XSS-Protection" -> "x-xss-protection"
      [] name = "Content-Type" -> "content-type"
      [] OTHER -> name

\* the proxy copies proxyRes.headers to the client response key by key with
\* res.setHeader: for names equal up to case the later key wins
WriteHeaders(obj) ==
    [n \in {LowerCase(obj[k][1]) : k \in 1..Len(obj)} |->
        LET last == CHOOSE k \in 1..Len(obj) :
                        /\ LowerCase(obj[k][1]) = n
                        /\ \A j \in 1..Len(obj) :
                               LowerCase(obj[j][1]) = n => j <= k
        IN obj[last][2]]

\* mutant: the 500 payload is written whether or not a response was started
OnError_Unguarded(req) ==
    [req EXCEPT !.status = 500,
                !.headers = ("content-type" :> "application/json"),
                !.body = [error |-> "Backend service unavailable",
                          message |-> "Cannot connect to backend server",
                          target |-> BACKEND_URL,
                          path |-> ReqPath(req)],
                !.headersSent = TRUE,
                !.ended = TRUE,
                !.writes = @ + 1]

\* onError: the 500 payload, written only if no response has been started
OnError(req) ==
    IF ~req.headersSent
    THEN [req EXCEPT !.status = 500,
                     !.headers = ("content-type" :> "application/json"),
                     !.body = [error |-> "Backend service unavailable",
                               message |-> "Cannot connect to backend server",
                               target |-> BACKEND_URL,
                               path |-> ReqPath(req)],
                     !.headersSent = TRUE,
                     !.ended = TRUE,
                     !.writes = @ + 1]
    ELSE req

\* a request reaches the middleware mounted at /api
ProxyArrive(rest, query, ip) ==
    /\ ~processExited
    /\ Len(requests) < MaxRequests
    /\ requests' = Append(requests,
         [originalUrl |-> Mount \o rest \o query,
          url |-> StripMount(Mount \o rest \o query),
          ip |-> ip,
          state |-> "Pending",
          attempts |-> 0,
          forwardedUrl |-> <<>>,
          proxyReqHeaders |-> NoHeaders,
          status |-> 0,
          headers |-> NoHeaders,
          body |-> NoBody,
          headersSent |-> FALSE,
          ended |-> FALSE,
          writes |-> 0])
    /\ UNCHANGED <<lifecycle, chaos, toggleCount, lastOverloadCall, lastOp,
                   response, backendEnv>>
    /\ Queued("api")

\* mutant: the middleware forwards only while the server reports healthy
ProxyForward_HealthGated(i) ==
    /\ ~processExited
    /\ serverHealthy
    /\ i \in 1..Len(requests)
    /\ requests[i].state = "Pending"
    /\ LET req == RestoreUrl(requests[i]) IN
         requests' = [requests EXCEPT ![i] =
             [req EXCEPT !.state = "Forwarding",
                         !.attempts = @ + 1,
                         !.forwardedUrl = req.url,
                         !.proxyReqHeaders = OnProxyReq(req)]]
    /\ UNCHANGED <<lifecycle, chaos, toggleCount, lastOverloadCall, lastOp,
                   response, backendEnv>>
    /\ Served("api")

\* the middleware opens the one backend request; onProxyReq runs
ProxyForward(i) ==
    /\ ~processExited
    /\ i \in 1..Len(requests)
    /\ requests[i].state = "Pending"
    /\ LET req == RestoreUrl(requests[i]) IN
         requests' = [requests EXCEPT ![i] =
             [req EXCEPT !.state = "Forwarding",
                         !.attempts = @ + 1,
                         !.forwardedUrl = req.url,
                         !.proxyReqHeaders = OnProxyReq(req)]]
    /\ UNCHANGED <<lifecycle, chaos, toggleCount, lastOverloadCall, lastOp,
                   response, backendEnv>>
    /\ Served("api")

\* the backend's response head arrives; onProxyRes runs, the head is relayed
BackendReply(i, reply) ==
    /\ ~processExited
    /\ i \in 1..Len(requests)
    /\ requests[i].state = "Forwarding"
    /\ requests' = [requests EXCEPT ![i] =
         [@ EXCEPT !.state = "Streaming",
                   !.status = reply.status,
                   !.headers = WriteHeaders(OnProxyRes(reply.headers)),
                   !.body = reply.body,
                   !.headersSent = TRUE,
                   !.writes = @ + 1]]
    /\ UNCHANGED <<lifecycle, chaos, toggleCount, lastOverloadCall, lastOp,
                   response, backendEnv>>
    /\ UNCHANGED loop

\* the backend's body ends; the piped response is ended
BackendEnd(i) ==
    /\ ~processExited
    /\ i \in 1..Len(requests)
    /\ requests[i].state = "Streaming"
    /\ requests' = [requests EXCEPT ![i] =
         [@ EXCEPT !.state = "Succeeded", !.ended = TRUE]]
    /\ UNCHANGED <<lifecycle, chaos, toggleCount, lastOverloadCall, lastOp,
                   response, backendEnv>>
    /\ UNCHANGED loop

\* connection refused, reset or timed out: the proxy calls onError
TransportError(i) ==
    /\ ~processExited
    /\ i \in 1..Len(requests)
    /\ requests[i].state \in {"Forwarding", "Streaming"}
    /\ requests' = [requests EXCEPT ![i] =
         [OnError(requests[i]) EXCEPT !.state = "Failed"]]
    /\ UNCHANGED <<lifecycle, chaos, toggleCount, lastOverloadCall, lastOp,
                   response, backendEnv>>
    /\ UNCHANGED loop

(***************************************************************************)
(* Specifications.                                                         *)
(*   Spec       health and overload endpoints with the overload timers     *)
(*   ChaosSpec  Spec with the crash endpoint and its countdown             *)
(*   ProxySpec  the /api proxy under every value of the lifecycle flags    *)
(***************************************************************************)
Next ==
    \/ Health
    \/ ToggleHealth
    \/ StartOverload
    \/ StopOverload
    \/ Status
    \/ \E t \in timers : StressTick(t)
    \/ \E t \in timers : ReleaseWaste(t)
    \/ Wait

Spec == Init /\ [][Next]_vars

ChaosNext ==
    \/ Next
    \/ crashCalls < MaxCrashes /\ Crash
    \/ \E t \in timers : CrashTick(t)
    \/ \E t \in timers : Terminate(t)

ChaosSpec == Init /\ [][ChaosNext]_vars

\* the event loop runs every due timer, and time passes while it idles
FairChaosSpec ==
    /\ ChaosSpec
    /\ WF_vars(Wait)
    /\ WF_vars(\E t \in timers : StressTick(t))
    /\ WF_vars(\E t \in timers : ReleaseWaste(t))
    /\ WF_vars(\E t \in timers : CrashTick(t))
    /\ WF_vars(\E t \in timers : Terminate(t))

ProxyInit == \E env \in BackendEnvs : InitWith(env)

ProxyNext ==
    \/ \E rest \in Rests, query \in Queries, ip \in Clients :
           ProxyArrive(rest, query, ip)
    \/ \E i \in 1..MaxRequests : ProxyForward(i)
    \/ \E i \in 1..MaxRequests, reply \in BackendReplies : BackendReply(i, reply)
    \/ \E i \in 1..MaxRequests : BackendEnd(i)
    \/ \E i \in 1..MaxRequests : TransportError(i)
    \/ ToggleHealth
    \/ StartOverload
    \/ StopOverload

ProxySpec == ProxyInit /\ [][ProxyNext]_vars

\* every endpoint, timer and proxy step in one specification
FrameNext ==
    \/ ChaosNext
    \/ ProxyArrive(<<"/movies">>, <<>>, "10.0.0.7")
    \/ \E i \in 1..MaxRequests : ProxyForward(i)
    \/ \E i \in 1..MaxRequests, reply \in BackendReplies : BackendReply(i, reply)
    \/ \E i \in 1..MaxRequests : BackendEnd(i)
    \/ \E i \in 1..MaxRequests : TransportError(i)

FrameSpec == Init /\ [][FrameNext]_vars

\* the crash countdown and its ladder with the overload cycle, and with
\* a process.exit that may be survived
LadderNext ==
    \/ StartOverload
    \/ StopOverload
    \/ \E t \in timers : StressTick(t)
    \/ \E t \in timers : ReleaseWaste(t)
    \/ crashCalls < MaxCrashes /\ Crash
    \/ \E t \in timers : CrashTick(t)
    \/ \E t \in timers : ExitIntercepted(t)
    \/ \E t \in timers : Terminate(t)
    \/ Wait

LadderSpec == Init /\ [][LadderNext]_vars

\* crash requests alone, one more than ChaosSpec allows
CrashPairNext ==
    \/ crashCalls < MaxCrashes + 1 /\ Crash
    \/ \E t \in timers : CrashTick(t)
    \/ \E t \in timers : Terminate(t)
    \/ Wait

CrashPairSpec == Init /\ [][CrashPairNext]_vars

(***************************************************************************)
(* The event loop with its phases tracked: requests wait in the inbox      *)
(* until the poll phase serves them.                                       *)
(***************************************************************************)
LoopOps == {"health", "start-overload", "stop-overload", "crash"}

InboxCount(op) ==
    Cardinality({k \in 1..Len(loop.inbox) : loop.inbox[k].op = op})

\* an admin request or probe arrives
Receive(op) ==
    /\ ~processExited
    /\ loop.phase # "off"
    /\ op = "crash" => crashCalls + InboxCount("crash") < MaxCrashes
    /\ Queued(op)
    /\ UNCHANGED program

\* no timer is left that was due when the timers phase began
EndTimers ==
    /\ ~processExited
    /\ loop.phase = "timers"
    /\ \A t \in timers : ~DueAtPhaseStart(t)
    /\ loop' = [loop EXCEPT !.phase = "poll", !.elapsed = 0,
                            !.batch = Len(loop.inbox)]
    /\ UNCHANGED program

\* the waiting requests are served and a timer is due: next iteration
BeginTimers ==
    /\ ~processExited
    /\ loop.phase = "poll"
    /\ loop.batch = 0
    /\ \E t \in timers : t.due <= 0
    /\ loop' = [loop EXCEPT !.phase = "timers", !.elapsed = 0]
    /\ UNCHANGED program

\* a request arrived while the loop waited in the poll phase
PollInbox ==
    /\ ~processExited
    /\ loop.phase = "poll"
    /\ loop.batch = 0
    /\ loop.inbox # <<>>
    /\ \A t \in timers : t.due > 0
    /\ loop' = [loop EXCEPT !.batch = Len(loop.inbox)]
    /\ UNCHANGED program

LoopStep ==
    \/ Health
    \/ StartOverload
    \/ StopOverload
    \/ Crash
    \/ \E i \in 1..MaxRequests : ProxyForward(i)
    \/ \E t \in timers : StressTick(t)
    \/ \E t \in timers : ReleaseWaste(t)
    \/ \E t \in timers : CrashTick(t)
    \/ \E t \in timers : Terminate(t)
    \/ Wait
    \/ EndTimers
    \/ BeginTimers
    \/ PollInbox

LoopNext ==
    \/ \E op \in LoopOps : Receive(op)
    \/ ProxyArrive(<<"/movies">>, <<>>, "10.0.0.7")
    \/ LoopStep

LoopInit == Started(Unset) /\ loop = LoopIdle

LoopSpec == LoopInit /\ [][LoopNext]_vars

(***************************************************************************)
(* Claims.                                                                 *)
(***************************************************************************)
Odd(n) == n % 2 = 1

\* C1: after any sequence of admin operations and probes, GET /health
\* answers 503 with status 'unhealthy' exactly when the number of
\* toggle-health calls applied so far is odd.
C1_UnhealthyIffOddToggles ==
    lastOp = "health" =>
        /\ Odd(toggleCount) =>
             response.code = 503 /\ response.body.status = "unhealthy"
        /\ ~Odd(toggleCount) =>
             response.code # 503 /\ response.body.status # "unhealthy"

C1_Witness ==
    /\ lastOp = "health"
    /\ toggleCount = 1
    /\ serverOverloaded
    /\ response.code = 503
    /\ response.body.status = "unhealthy"

\* C2: GET /health maps (healthy, overloaded) to: unhealthy/503 when healthy
\* is false; degraded/200 when healthy and overloaded; healthy/200 otherwise.
C2_HealthMapping ==
    lastOp = "health" =>
        /\ ~serverHealthy =>
             response.code = 503 /\ response.body.status = "unhealthy"
        /\ serverHealthy /\ serverOverloaded =>
             response.code = 200 /\ response.body.status = "degraded"
        /\ serverHealthy /\ ~serverOverloaded =>
             response.code = 200 /\ response.body.status = "healthy"

C2_Witness ==
    /\ lastOp = "health"
    /\ serverHealthy
    /\ serverOverloaded
    /\ response.code = 200
    /\ response.body.status = "degraded"

\* C3: in every reachable state the flag overloaded is true exactly when a
\* stress handle is stored.
C3_OverloadedIffHandle ==
    serverOverloaded <=> (overloadInterval # Null)

C3_Witness ==
    /\ serverOverloaded
    /\ overloadInterval # Null
    /\ toggleCount > 0
    /\ \E t \in timers : t.kind = "release"

\* C4: start-overload answers overloaded:true and never leaves more than one
\* live stress interval timer; exactly one is live when the last of the
\* start/stop calls was a start.
C4_AtMostOneStressTimer ==
    /\ Cardinality(StressTimers) <= 1
    /\ lastOverloadCall = "start" => Cardinality(StressTimers) = 1
    /\ lastOp = "start-overload" =>
         response.code = 200 /\ response.body.overloaded = TRUE

C4_Witness ==
    /\ lastOp = "start-overload"
    /\ response.body.message = "Overload already running"
    /\ response.body.overloaded = TRUE
    /\ Cardinality(StressTimers) = 1

\* C5: stop-overload with no stress cycle active answers 200 with
\* overloaded:false and leaves healthy, overloaded, the stress handle and
\* the timers as they were; the process keeps running.
C5_StopWithoutCycleIsNoOp ==
    [][(StopOverload /\ StressTimers = {}) =>
          /\ response'.code = 200
          /\ response'.body.overloaded = FALSE
          /\ ~processExited'
          /\ UNCHANGED <<lifecycle, timers>>]_vars

C5_Witness ==
    /\ lastOp = "stop-overload"
    /\ response.body.message = "No overload running"
    /\ response.code = 200
    /\ ~serverOverloaded
    /\ overloadInterval = Null

\* C6: after stop-overload every /admin/status reports overloaded:false until
\* the next start-overload, no stress timer stays live, and a stress tick
\* begins only while the cycle that armed it is still the stored one.
C6_StopCancelsFutureTicks ==
    /\ [](lastOverloadCall = "stop" /\ lastOp = "status" =>
            response.body.overloaded = FALSE)
    /\ [](lastOverloadCall = "stop" => StressTimers = {})
    /\ [][\A t \in timers : StressTick(t) =>
              lastOverloadCall = "start" /\ overloadInterval = t.id]_vars

C6_Witness ==
    /\ lastOverloadCall = "stop"
    /\ lastOp = "status"
    /\ response.body.overloaded = FALSE
    /\ \E t \in timers : t.kind = "release"

Deadline == 4 * TicksPerSecond

CrashAck ==
    [code |-> 200,
     body |-> [message |-> "Frontend container crash initiated",
               countdown |-> 3, timestamp |-> Timestamp]]

\* C7: /admin/crash answers its acknowledgement (countdown: 3) and the
\* process is terminated within 4 seconds of the call, in every reachable
\* state, an active overload cycle included.
C7_TerminatedWithin4Seconds ==
    /\ lastOp = "crash" => response = CrashAck
    /\ sinceCrash > Deadline => processExited

LadderTimers == {t \in timers : t.kind \in {"exit", "throw", "kill"}}

\* a step keeps every countdown and every armed termination on schedule
CountdownKept ==
    /\ \A t \in CrashTimers :
           \/ \E u \in CrashTimers' :
                  /\ u.id = t.id
                  /\ u.repeat = t.repeat
                  /\ \/ u.countdown = t.countdown /\ u.due <= t.due
                     \/ u.countdown = t.countdown - 1 /\ t.due <= 0
           \/ /\ t.countdown = 1
              /\ t.due <= 0
              /\ \E u \in LadderTimers' : u.kind = "exit"
           \/ processExited'
    /\ \A t \in LadderTimers :
           \/ \E u \in LadderTimers' : u.kind = t.kind /\ u.due <= t.due
           \/ processExited'

ConfiguredBackend == IF backendEnv = Unset THEN DefaultBackend ELSE backendEnv

C10_FailedRequestIsEnded ==
    \A i \in 1..Len(requests) :
        requests[i].state = "Failed" => requests[i].ended

BackendStatuses == {reply.status : reply \in BackendReplies}

\* C11: what happens to a forwarded /api request does not depend on the
\* lifecycle flags: whatever the values of healthy and overloaded, a pending
\* request can be forwarded, a forwarded one can receive every backend reply
\* or a transport error, a relayed one can end, and the status the client
\* gets is the backend's or the proxy's own 500, never one derived from the
\* flags; steps of the proxy and steps that change the flags leave each
\* other's state alone.  In particular requests are forwarded while /health
\* answers 503.
C11_ProxyIgnoresLifecycle ==
    /\ [](\A i \in 1..Len(requests) :
            /\ requests[i].state = "Pending" => ENABLED ProxyForward(i)
            /\ requests[i].state = "Forwarding" =>
                 /\ \A reply \in BackendReplies : ENABLED BackendReply(i, reply)
                 /\ ENABLED TransportError(i)
            /\ requests[i].state = "Streaming" =>
                 ENABLED BackendEnd(i) /\ ENABLED TransportError(i)
            /\ requests[i].status \in {0, 500} \cup BackendStatuses)
    /\ [][/\ requests' # requests => UNCHANGED lifecycle
          /\ lifecycle' # lifecycle => UNCHANGED requests]_vars

C11_Witness ==
    \E i \in 1..Len(requests) :
        /\ requests[i].state = "Succeeded"
        /\ requests[i].status = 200
        /\ ~serverHealthy
        /\ serverOverloaded

HardeningHeaders ==
    ("x-content-type-options" :> "nosniff") @@ ("x-frame-options" :> "DENY")
        @@ ("x-xss-protection" :> "1; mode=block")

\* the header names of a backend reply, as the client sees them
ReplyNames(reply) == {LowerCase(reply.headers[k][1]) : k \in 1..Len(reply.headers)}

C13_OverloadResponsesCarryTimestamp ==
    /\ lastOp = "start-overload" =>
         /\ response.code = 200
         /\ DOMAIN response.body = {"message", "overloaded", "timestamp"}
         /\ response.body.overloaded = TRUE
    /\ lastOp = "stop-overload" =>
         /\ response.code = 200
         /\ DOMAIN response.body = {"message", "overloaded", "timestamp"}
         /\ response.body.overloaded = FALSE

\* LifecycleState as the claims read it: the handle is present or absent
LifecycleState == <<serverHealthy, serverOverloaded, overloadInterval # Null>>

\* a step that applies an operation right after the same operation
\* (timer callbacks may run in between) leaves LifecycleState as the first
\* application left it
IdempotentStep(op, A) == (lastOp = op /\ A) => LifecycleState' = LifecycleState

Transitions ==
    {<<"Pending", "Forwarding">>, <<"Forwarding", "Streaming">>,
     <<"Streaming", "Succeeded">>, <<"Forwarding", "Failed">>,
     <<"Streaming", "Failed">>}

\* C18: each forwarded /api request follows Pending -> Forwarding ->
\* {Succeeded, Failed} with a single backend attempt: it is sent to the
\* backend at most once, never leaves Succeeded or Failed, and at most one
\* client response is written for it, the relayed backend response or the
\* 500 payload and never both.
C18_SingleAttemptStateMachine ==
    /\ [](\A i \in 1..Len(requests) :
            /\ requests[i].attempts <= 1
            /\ requests[i].writes <= 1
            /\ requests[i].state = "Pending" <=> requests[i].attempts = 0
            /\ requests[i].state = "Succeeded" =>
                 requests[i].status \in BackendStatuses)
    /\ [][\A i \in 1..Len(requests) :
            requests'[i].state # requests[i].state =>
                <<requests[i].state, requests'[i].state>> \in Transitions]_vars

C18_Witness ==
    \E i \in 1..Len(requests) :
        /\ requests[i].state = "Failed"
        /\ requests[i].attempts = 1
        /\ requests[i].writes = 1
        /\ requests[i].status = 200

\* C15: each LifecycleState field is written only by its own operation:
\* healthy changes only in a toggle-health step, which changes it and leaves
\* overloaded and the stress handle alone; overloaded and the handle change
\* only in start-overload and stop-overload steps, which leave healthy
\* alone; every other step (GET /health, GET /admin/status, POST
\* /admin/crash, timer callbacks, proxy steps) leaves all three unchanged.
C15_FieldsWrittenByOwnOperation ==
    [][/\ serverHealthy' # serverHealthy => ToggleHealth
       /\ <<serverOverloaded, overloadInterval>>'
              # <<serverOverloaded, overloadInterval>>
            => StartOverload \/ StopOverload
       /\ ToggleHealth =>
            /\ serverHealthy' # serverHealthy
            /\ UNCHANGED <<serverOverloaded, overloadInterval>>
       /\ StartOverload \/ StopOverload => UNCHANGED serverHealthy
       /\ (Health \/ Status \/ Crash \/ requests' # requests
             \/ \E t \in timers : StressTick(t))
            => UNCHANGED lifecycle]_vars

C15_Witness ==
    /\ ~serverHealthy
    /\ serverOverloaded
    /\ crashCalls > 0
    /\ lastOp = "status"
    /\ \E t \in timers : t.kind = "release"
    /\ \E i \in 1..Len(requests) : requests[i].state = "Succeeded"

KillArmedLater ==
    ~processExited =>
        \A t \in LadderTimers :
            t.kind \in {"exit", "throw"} =>
                \E k \in LadderTimers : k.kind = "kill" /\ k.due > t.due

EarliestTermination == (3 * TicksPerSecond) + 1

\* C19: a crash request is accepted with the 200 acknowledgement whenever
\* the process is alive, also while an earlier countdown runs; it arms a
\* countdown of its own (3 ticks) and leaves every earlier timer as it was;
\* no step resets or postpones a countdown; the process has terminated by
\* the termination time of the earliest accepted crash.
C19_CrashesIndependent ==
    /\ [](~processExited => ENABLED Crash)
    /\ [][Crash =>
            /\ response' = CrashAck
            /\ \E new \in timers' \ timers :
                   /\ timers' = timers \cup {new}
                   /\ new.kind = "crash"
                   /\ new.countdown = 3
                   /\ new.due = TicksPerSecond]_vars
    /\ [][CountdownKept]_vars
    /\ [](sinceCrash <= EarliestTermination)

C19_Witness ==
    /\ processExited
    /\ crashCalls = 2
    /\ sinceCrash = EarliestTermination
    /\ \E t \in CrashTimers : t.countdown >= 2

====
